---- MODULE Spec2Model ----
(***************************************************************************)
(* Triage and semantic matching pipeline of src/main.py: the readiness     *)
(* probe and the embedding build that run when the module is imported, and *)
(* the handler generate_prescription with the helpers it calls             *)
(* (rule_based_risk_score, ollama_embeddings, cosine_similarity).          *)
(*                                                                         *)
(* Text is a sequence of one-character strings, so that lower-casing and   *)
(* substring search are computed and not assumed.  A JSON value of the     *)
(* embedding provider is a tagged record.  A similarity is kept as the     *)
(* pair (s, d) with s = sign(dot) * dot^2 and d = |v1|^2 * |v2|^2, that is *)
(* the signed square of the cosine as an exact fraction: the map           *)
(* x |-> sign(x) * x^2 is strictly increasing, so every comparison the     *)
(* code makes between similarities is decided exactly as over the reals.   *)
(***************************************************************************)
EXTENDS Integers, Sequences, FiniteSets

\* ------------------------------------------------------------------ bounds
\* records of the knowledge base in the single-request specifications
MaxRecords == 3
\* records of the knowledge base in the concurrent specification
MaxCoreRecords == 2
\* requests in flight
MaxRequests == 2

\* ------------------------------------------------------- program constants
RETRIES == 10
RISK_THRESHOLD == 50
RISK_CAP == 100

\* -------------------------------------------------------------------- text
UpperAlpha ==
  <<"A", "B", "C", "D", "E", "F", "G", "H", "I", "J", "K", "L", "M",
    "N", "O", "P", "Q", "R", "S", "T", "U", "V", "W", "X", "Y", "Z">>

LowerAlpha ==
  <<"a", "b", "c", "d", "e", "f", "g", "h", "i", "j", "k", "l", "m",
    "n", "o", "p", "q", "r", "s", "t", "u", "v", "w", "x", "y", "z">>

\* str.lower() on one character
LowerChar(c) ==
  IF \E i \in 1..Len(UpperAlpha) : UpperAlpha[i] = c
    THEN LowerAlpha[CHOOSE i \in 1..Len(UpperAlpha) : UpperAlpha[i] = c]
    ELSE c

\* str.lower()
Lower(txt) == [i \in 1..Len(txt) |-> LowerChar(txt[i])]

\* the operator `pat in txt` of Python strings
Contains(txt, pat) ==
  \E i \in 1..(Len(txt) - Len(pat) + 1) : SubSeq(txt, i, i + Len(pat) - 1) = pat

Space == <<" ">>
chest_pain == <<"c", "h", "e", "s", "t", " ", "p", "a", "i", "n">>
breath == <<"b", "r", "e", "a", "t", "h">>
bleeding == <<"b", "l", "e", "e", "d", "i", "n", "g">>
fever == <<"f", "e", "v", "e", "r">>
rash == <<"r", "a", "s", "h">>
male == <<"m", "a", "l", "e">>

Min(a, b) == IF a < b THEN a ELSE b

\* ------------------------------------------------------------- risk scorer
\* the scorer with the call to lower() left out: matching becomes case-sensitive
rule_based_risk_score_CaseSensitive(age, sex, symptoms, add_symptoms) ==
  LET txt == symptoms \o Space \o add_symptoms
      t1 == IF Contains(txt, chest_pain) \/ Contains(txt, breath) THEN 4 ELSE 0
      t2 == t1 + (IF Contains(txt, bleeding) THEN 4 ELSE 0)
      t3 == t2 + (IF Contains(txt, fever) THEN 2 ELSE 0)
      t4 == t3 + (IF Contains(txt, rash) THEN 1 ELSE 0)
      t5 == t4 + (IF age > 60 THEN 3 ELSE 0)
      total == t5 + (IF sex = male THEN 1 ELSE 0)
  IN  Min(RISK_CAP, total * 10)

rule_based_risk_score(age, sex, symptoms, add_symptoms) ==
  LET txt == Lower(symptoms \o Space \o add_symptoms)
      t1 == IF Contains(txt, chest_pain) \/ Contains(txt, breath) THEN 4 ELSE 0
      t2 == t1 + (IF Contains(txt, bleeding) THEN 4 ELSE 0)
      t3 == t2 + (IF Contains(txt, fever) THEN 2 ELSE 0)
      t4 == t3 + (IF Contains(txt, rash) THEN 1 ELSE 0)
      t5 == t4 + (IF age > 60 THEN 3 ELSE 0)
      total == t5 + (IF Lower(sex) = male THEN 1 ELSE 0)
  IN  Min(RISK_CAP, total * 10)

\* the comparison with the threshold made strict
HighRiskStrict(risk) == risk > RISK_THRESHOLD

\* `if risk >= 50`
HighRisk(risk) == risk >= RISK_THRESHOLD

\* ------------------------------------------------------------- JSON values
Null == [t |-> "null"]
Absent == [t |-> "absent"]
Num(n) == [t |-> "num", n |-> n]
Str(s) == [t |-> "str", s |-> s]
List(xs) == [t |-> "list", xs |-> xs]
Dict(e, es) == [t |-> "dict", embedding |-> e, embeddings |-> es]

\* a list of numbers
Vec(ns) == List([i \in 1..Len(ns) |-> Num(ns[i])])

IsVec(v) == v.t = "list" /\ \A i \in 1..Len(v.xs) : v.xs[i].t = "num"

\* Python truth value of a JSON value (`not v` is its negation)
Truthy(v) ==
  CASE v.t = "null" -> FALSE
    [] v.t = "absent" -> FALSE
    [] v.t = "num" -> v.n # 0
    [] v.t = "str" -> v.s # ""
    [] v.t = "list" -> Len(v.xs) > 0
    [] v.t = "dict" -> v.embedding.t # "absent" \/ v.embeddings.t # "absent"

\* ------------------------------------------------------ embedding provider
\* what the provider does with one POST /api/embeddings: the request fails
\* (transport error, timeout, error status, undecodable body), or it answers
\* 200 with a JSON document
Failure(kind) == [ok |-> FALSE, kind |-> kind]
Answer(data) == [ok |-> TRUE, data |-> data]
NoReply == [ok |-> FALSE, kind |-> "none"]

\* ollama_embeddings: the value returned for one reply of the provider
ollama_embeddings(reply) ==
  IF ~reply.ok THEN Null
  ELSE LET data == reply.data
       IN  IF data.t = "dict" /\ data.embedding.t # "absent" THEN data.embedding
           ELSE IF data.t = "dict" /\ data.embeddings.t # "absent" THEN data.embeddings
           ELSE IF data.t = "list" /\ Len(data.xs) > 0 THEN data.xs[1]
           ELSE Null

\* -------------------------------------------------------------- similarity
RECURSIVE SumTo(_, _)
SumTo(f, n) == IF n = 0 THEN 0 ELSE f[n] + SumTo(f, n - 1)

\* sum(a*b for a,b in zip(v1,v2)): zip stops at the shorter of the two
Dot(v1, v2) ==
  LET n == Min(Len(v1.xs), Len(v2.xs))
  IN  SumTo([i \in 1..n |-> v1.xs[i].n * v2.xs[i].n], n)

\* sum(a*a for a in v): the square of the norm
NormSq(v) == SumTo([i \in 1..Len(v.xs) |-> v.xs[i].n * v.xs[i].n], Len(v.xs))

Sim(s, d) == [err |-> FALSE, s |-> s, d |-> d]
Zero == Sim(0, 1)
TypeError == [err |-> TRUE, s |-> 0, d |-> 1]

\* a > b for two similarities
Gt(a, b) == a.s * b.d > b.s * a.d

\* a = b for two similarities
SimEq(a, b) == a.s * b.d = b.s * a.d

\* the arithmetic of cosine_similarity once both arguments are truthy: a
\* value that is not a list of numbers makes zip, * or sum raise TypeError
CosineOfTruthy(v1, v2) ==
  IF ~(IsVec(v1) /\ IsVec(v2)) THEN TypeError
  ELSE LET dot == Dot(v1, v2)
           n1 == NormSq(v1)
           n2 == NormSq(v2)
       IN  IF n1 = 0 \/ n2 = 0 THEN Zero
           ELSE Sim((IF dot < 0 THEN -1 ELSE 1) * dot * dot, n1 * n2)

\* cosine_similarity without the guard `if not v1 or not v2`
cosine_similarity_NoGuard(v1, v2) ==
  IF v1.t \in {"null", "absent"} \/ v2.t \in {"null", "absent"} THEN TypeError
  ELSE CosineOfTruthy(v1, v2)

cosine_similarity(v1, v2) ==
  IF ~Truthy(v1) \/ ~Truthy(v2) THEN Zero ELSE CosineOfTruthy(v1, v2)

\* ------------------------------------------------------------------ search
\* best_score = -1 instead of 0
InitialBestScoreNegative == Sim(-1, 1)

\* `best_match, best_score = None, 0`
InitialBestScore == Zero

\* `sim >= best_score`
BetterOrEqual(sim, best) == ~Gt(best, sim)

\* `if sim > best_score`
Better(sim, best) == Gt(sim, best)

\* e.get("embedding")
GetEmbedding(e) == IF e.embedding.t = "absent" THEN Null ELSE e.embedding

\* the loop `for e in OTC_DATA` of generate_prescription from record i on;
\* best_match is the index of the record held (0 for None), sims the
\* similarities computed so far, fault is set when cosine_similarity raises
RECURSIVE Scan(_, _, _, _)
Scan(kb, user_vec, i, acc) ==
  IF i > Len(kb) THEN acc
  ELSE LET sim == cosine_similarity(user_vec, GetEmbedding(kb[i]))
       IN  IF sim.err THEN [acc EXCEPT !.fault = TRUE]
           ELSE Scan(kb, user_vec, i + 1,
                     [best_match |-> IF Better(sim, acc.best_score)
                                       THEN i ELSE acc.best_match,
                      best_score |-> IF Better(sim, acc.best_score)
                                       THEN sim ELSE acc.best_score,
                      sims |-> Append(acc.sims, sim),
                      fault |-> FALSE])

Search(kb, user_vec) ==
  Scan(kb, user_vec, 1,
       [best_match |-> 0, best_score |-> InitialBestScore,
        sims |-> <<>>, fault |-> FALSE])

\* ------------------------------------------------------------------- state
VARIABLES
  phase,         \* position of the module-level code: "probing", "building", "serving"
  attempt,       \* check_ollama_ready: attempts issued by the running loop
  last_probe,    \* check_ollama_ready: what the last attempt met
  ollama_ready,  \* the value check_ollama_ready returned
  build_i,       \* index of the record the embedding loop is at
  OTC_DATA,      \* the knowledge base
  APPOINTMENTS,  \* the in-memory appointment table
  otp_storage,   \* EmailService.otp_storage
  req            \* the requests being handled by generate_prescription

vars ==
  <<phase, attempt, last_probe, ollama_ready, build_i, OTC_DATA,
    APPOINTMENTS, otp_storage, req>>

Patient(age, sex, symptoms, add) ==
  [age |-> age, sex |-> sex, symptoms |-> symptoms, additional_symptoms |-> add]

NoPatient == Patient(0, <<>>, <<>>, <<>>)

Idle ==
  [pc |-> "idle", patient |-> NoPatient, risk |-> 0, reply |-> NoReply,
   user_vec |-> Null, sims |-> <<>>, best_match |-> 0, best_score |-> Zero,
   outcome |-> "none", embed_calls |-> 0]

\* a record as read_otc_file leaves it: no "embedding" key yet
LoadedRecord(c) == [Condition |-> c, embedding |-> Absent]

RECURSIVE SeqsUpTo(_, _)
SeqsUpTo(S, n) ==
  IF n = 0 THEN {<<>>}
  ELSE LET shorter == SeqsUpTo(S, n - 1)
       IN  shorter \cup {Append(q, x) : q \in {p \in shorter : Len(p) = n - 1}, x \in S}

LoadedKBs(Conditions, n) == SeqsUpTo({LoadedRecord(c) : c \in Conditions}, n)

InitOn(KBs) ==
  /\ phase = "probing"
  /\ attempt = 0
  /\ last_probe = "none"
  /\ ollama_ready = FALSE
  /\ build_i = 1
  /\ OTC_DATA \in KBs
  /\ APPOINTMENTS = <<>>
  /\ otp_storage = <<>>
  /\ req = [r \in 1..MaxRequests |-> Idle]

\* ----------------------------------------------------------------- startup
\* range(1, retries) : the loop gives up one attempt early
LoopExhaustedEarly(n) == n = RETRIES - 1

\* `for attempt in range(1, retries + 1)` has run out
LoopExhausted(n) == n = RETRIES

\* one iteration of check_ollama_ready: GET /api/tags answers 200, answers
\* another status, or raises
ProbeAttempt ==
  /\ phase = "probing"
  /\ ~LoopExhausted(attempt)
  /\ \E met \in {"ok", "bad_status", "exception"} :
       /\ last_probe' = met
       /\ IF met = "ok"
            THEN /\ ollama_ready' = TRUE
                 /\ phase' = "building"
                 /\ attempt' = 0
            ELSE /\ attempt' = attempt + 1
                 /\ UNCHANGED <<ollama_ready, phase>>
  /\ UNCHANGED <<build_i, OTC_DATA, APPOINTMENTS, otp_storage, req>>

\* `return False` after the loop
ProbeGiveUp ==
  /\ phase = "probing"
  /\ LoopExhausted(attempt)
  /\ ollama_ready' = FALSE
  /\ phase' = "building"
  /\ attempt' = 0
  /\ UNCHANGED <<last_probe, build_i, OTC_DATA, APPOINTMENTS, otp_storage, req>>

\* one iteration of `for i, entry in enumerate(OTC_DATA, start=1)`
BuildEmbed(Replies) ==
  /\ phase = "building"
  /\ ollama_ready
  /\ build_i <= Len(OTC_DATA)
  /\ IF OTC_DATA[build_i].Condition # ""
       THEN \E reply \in Replies :
              OTC_DATA' = [OTC_DATA EXCEPT ![build_i].embedding = ollama_embeddings(reply)]
       ELSE UNCHANGED OTC_DATA
  /\ build_i' = build_i + 1
  /\ UNCHANGED <<phase, attempt, last_probe, ollama_ready, APPOINTMENTS, otp_storage, req>>

\* the embedding loop has run over every record
BuildDone ==
  /\ phase = "building"
  /\ ollama_ready
  /\ build_i > Len(OTC_DATA)
  /\ phase' = "serving"
  /\ UNCHANGED <<attempt, last_probe, ollama_ready, build_i, OTC_DATA,
                 APPOINTMENTS, otp_storage, req>>

\* the else branch: `for entry in OTC_DATA: entry["embedding"] = None`
BuildSkip ==
  /\ phase = "building"
  /\ ~ollama_ready
  /\ OTC_DATA' = [i \in 1..Len(OTC_DATA) |-> [OTC_DATA[i] EXCEPT !.embedding = Null]]
  /\ phase' = "serving"
  /\ UNCHANGED <<attempt, last_probe, ollama_ready, build_i, APPOINTMENTS, otp_storage, req>>

Startup(Replies) ==
  ProbeAttempt \/ ProbeGiveUp \/ BuildEmbed(Replies) \/ BuildDone \/ BuildSkip

\* ---------------------------------------------------------------- requests
\* generate_prescription up to the escalation return: the risk score, then
\* `if risk >= 50: return {... "High risk detected. Book ambulance."}`
ReqStart(r, Patients) ==
  /\ phase = "serving"
  /\ req[r].pc = "idle"
  /\ \E p \in Patients :
       LET risk == rule_based_risk_score(p.age, p.sex, p.symptoms, p.additional_symptoms)
       IN  req' = [req EXCEPT ![r] =
                     IF HighRisk(risk)
                       THEN [Idle EXCEPT !.pc = "done", !.patient = p, !.risk = risk,
                                         !.outcome = "escalate"]
                       ELSE [Idle EXCEPT !.pc = "embedding", !.patient = p, !.risk = risk]]
  /\ UNCHANGED <<phase, attempt, last_probe, ollama_ready, build_i, OTC_DATA,
                 APPOINTMENTS, otp_storage>>

\* `user_vec = ollama_embeddings(symptoms + " " + additional_symptoms)`
ReqEmbed(r, Replies) ==
  /\ req[r].pc = "embedding"
  /\ \E reply \in Replies :
       req' = [req EXCEPT ![r].pc = "searching",
                          ![r].reply = reply,
                          ![r].user_vec = ollama_embeddings(reply),
                          ![r].embed_calls = @ + 1]
  /\ UNCHANGED <<phase, attempt, last_probe, ollama_ready, build_i, OTC_DATA,
                 APPOINTMENTS, otp_storage>>

\* what the handler ends in after the scan: an uncaught TypeError, the
\* HTTPException 404 "No match found", or the prescription response
OutcomeOf(res) ==
  IF res.fault THEN "fault"
  ELSE IF res.best_match = 0 THEN "no_match"
  ELSE "recommend"

\* the scan, with best_match.pop("embedding") before the record is returned
ReqSearchPoppingEmbedding(r) ==
  /\ req[r].pc = "searching"
  /\ LET res == Search(OTC_DATA, req[r].user_vec)
     IN  /\ req' = [req EXCEPT ![r].pc = "done",
                               ![r].sims = res.sims,
                               ![r].best_match = res.best_match,
                               ![r].best_score = res.best_score,
                               ![r].outcome = OutcomeOf(res)]
         /\ OTC_DATA' = IF res.best_match = 0 \/ res.fault THEN OTC_DATA
                        ELSE [OTC_DATA EXCEPT ![res.best_match].embedding = Absent]
  /\ UNCHANGED <<phase, attempt, last_probe, ollama_ready, build_i,
                 APPOINTMENTS, otp_storage>>

\* the scan over OTC_DATA and the end of the handler
ReqSearch(r) ==
  /\ req[r].pc = "searching"
  /\ LET res == Search(OTC_DATA, req[r].user_vec)
     IN  req' = [req EXCEPT ![r].pc = "done",
                            ![r].sims = res.sims,
                            ![r].best_match = res.best_match,
                            ![r].best_score = res.best_score,
                            ![r].outcome = OutcomeOf(res)]
  /\ UNCHANGED <<phase, attempt, last_probe, ollama_ready, build_i, OTC_DATA,
                 APPOINTMENTS, otp_storage>>

\* the response has been sent; the locals of the call are gone
ReqReturn(r) ==
  /\ req[r].pc = "done"
  /\ req' = [req EXCEPT ![r] = Idle]
  /\ UNCHANGED <<phase, attempt, last_probe, ollama_ready, build_i, OTC_DATA,
                 APPOINTMENTS, otp_storage>>

Serve(R, Patients, Replies) ==
  \E r \in R :
    ReqStart(r, Patients) \/ ReqEmbed(r, Replies) \/ ReqSearch(r) \/ ReqReturn(r)

\* ------------------------------------------------------------------ inputs
SymptomTexts ==
  {<<"c", "h", "e", "s", "t", " ", "p", "a", "i", "n">>,
   <<"C", "h", "e", "s", "t", " ", "P", "a", "i", "n">>,
   <<"c", "h", "e", "s", "t">>,
   <<"s", "h", "o", "r", "t", " ", "o", "f", " ", "B", "R", "E", "A", "T", "H">>,
   <<"B", "l", "e", "e", "d", "i", "n", "g">>,
   <<"f", "e", "v", "e", "r">>,
   <<"F", "E", "V", "E", "R", " ", "a", "n", "d", " ", "r", "a", "s", "h">>,
   <<"h", "e", "a", "d", "a", "c", "h", "e">>,
   <<"b", "l", "e", "e", "d", "i", "n", "g", " ", "r", "a", "s", "h">>,
   <<"C", "h", "e", "s", "t", " ", "p", "a", "i", "n", " ", "a", "n", "d", " ", "B", "l", "e", "e", "d", "i", "n", "g">>,
   <<>>}

AdditionalTexts ==
  {<<>>,
   <<"p", "a", "i", "n">>,
   <<"r", "a", "s", "h">>,
   <<"f", "e", "v", "e", "r">>}

SexTexts ==
  {<<"m", "a", "l", "e">>,
   <<"M", "a", "l", "e">>,
   <<"M", "A", "L", "E">>,
   <<"f", "e", "m", "a", "l", "e">>}

Ages == {30, 60, 61}

TriagePatients ==
  {Patient(a, x, s, d) : a \in Ages, x \in SexTexts, s \in SymptomTexts, d \in AdditionalTexts}

\* one patient scoring 0 and one scoring 80
CorePatients ==
  {Patient(30, <<"f", "e", "m", "a", "l", "e">>, <<"h", "e", "a", "d", "a", "c", "h", "e">>, <<>>),
   Patient(70, <<"m", "a", "l", "e">>, <<"c", "h", "e", "s", "t", " ", "p", "a", "i", "n">>, <<>>)}

LowRiskPatients == {Patient(30, <<"f", "e", "m", "a", "l", "e">>, <<"h", "e", "a", "d", "a", "c", "h", "e">>, <<>>)}

Named(v) == Answer(Dict(v, Absent))

CoreReplies ==
  {Failure("transport"),
   Answer(Dict(Absent, Absent)),
   Named(Vec(<<1, 0>>)),
   Answer(Dict(Absent, List(<<Vec(<<1, 0>>)>>)))}

TriageReplies == {Failure("timeout"), Named(Vec(<<1, 0>>))}

MatchVectors ==
  {<<1, 0>>, <<0, 1>>, <<9, 1>>, <<1, 1>>, <<2, 0>>, <<-1, 0>>, <<0, 0>>, <<1>>, <<>>}

MatchReplies ==
  {Failure("http_error"), Answer(Dict(Absent, List(<<Vec(<<1, 0>>)>>)))}
    \cup {Named(Vec(v)) : v \in MatchVectors}

\* the response shapes of the provider
ShapeReplies ==
  {Failure("transport"), Failure("timeout"), Failure("http_error"), Failure("bad_json"),
   Named(Vec(<<1, 0>>)),
   Named(Null),
   Named(Str("junk")),
   Named(Num(1)),
   Answer(Dict(Absent, List(<<Vec(<<1, 0>>), Vec(<<0, 1>>)>>))),
   Answer(Dict(Absent, Vec(<<1, 0>>))),
   Answer(List(<<Vec(<<1, 0>>), Vec(<<0, 1>>)>>)),
   Answer(Vec(<<1, 0>>)),
   Answer(Vec(<<0, 1>>)),
   Answer(List(<<>>)),
   Answer(Dict(Absent, Absent)),
   Answer(Num(1)),
   Answer(Str("junk")),
   Answer(Null)}

\* ---------------------------------------------------------- specifications
\* the whole program: startup, then requests handled concurrently
Init == InitOn(LoadedKBs({"", "Common Cold"}, MaxCoreRecords))

Next == Startup(CoreReplies) \/ Serve(1..MaxRequests, CorePatients, CoreReplies)

Spec == Init /\ [][Next]_vars

\* one request at a time over the whole set of patient inputs
InitTriage == InitOn({<<LoadedRecord("Common Cold")>>})

NextTriage == Startup(TriageReplies) \/ Serve({1}, TriagePatients, TriageReplies)

TriageSpec == InitTriage /\ [][NextTriage]_vars

\* the same, with the module-level code running to completion: every probe
\* attempt has a timeout, every sleep ends, every embedding call has a timeout
FairTriageSpec == TriageSpec /\ WF_vars(Startup(TriageReplies))

\* one low-risk request at a time over the embeddings the provider may give
InitMatch == InitOn(LoadedKBs({"Common Cold"}, MaxRecords))

NextMatch == Startup(MatchReplies) \/ Serve({1}, LowRiskPatients, MatchReplies)

MatchSpec == InitMatch /\ [][NextMatch]_vars

\* one low-risk request at a time over the response shapes of the provider
InitShape == InitOn({<<LoadedRecord("Common Cold")>>})

NextShape == Startup(ShapeReplies) \/ Serve({1}, LowRiskPatients, ShapeReplies)

ShapeSpec == InitShape /\ [][NextShape]_vars

\* ------------------------------------------------------------------ claims
Slots == DOMAIN req

\* the similarity of request r's query vector and record j
SimAt(r, j) == cosine_similarity(req[r].user_vec, GetEmbedding(OTC_DATA[j]))

\* C1: a request whose risk score is at least 50 ends in the escalation
\* outcome, and no call to the embedding provider is made at any point of it:
\* it is never waiting for an embedding or scanning, it has received no reply
\* and counted no embedding call.
EscalationShortCircuit ==
  \A r \in Slots :
    (req[r].pc # "idle" /\ req[r].risk >= 50) =>
      /\ req[r].pc = "done"
      /\ req[r].outcome = "escalate"
      /\ req[r].embed_calls = 0
      /\ req[r].reply = NoReply

\* a request scoring exactly 50 has been escalated while the provider is down
EscalatedAtThreshold ==
  \E r \in Slots :
    /\ req[r].pc = "done"
    /\ req[r].risk = 50
    /\ req[r].outcome = "escalate"
    /\ ~ollama_ready

\* the case of C2: a finished low-risk request served in degraded mode, or
\* whose embedding call returned None
EmbeddingUnavailable(r) ==
  /\ req[r].pc = "done"
  /\ req[r].risk < 50
  /\ (~ollama_ready \/ req[r].user_vec = Null)

NoUncaughtFault ==
  \A r \in Slots :
    req[r].pc = "done" =>
      req[r].outcome \in {"escalate", "unavailable", "no_match", "recommend"}

\* C4: the scan computes the similarity of every record in order and, when
\* some similarity is strictly positive, recommends a record of maximal
\* similarity, the earliest of those that share the maximum.
TieBreakEarliest ==
  \A r \in Slots :
    (req[r].pc = "done" /\ req[r].outcome \notin {"escalate", "fault"}) =>
      LET n == Len(OTC_DATA)
          b == req[r].best_match
      IN  /\ Len(req[r].sims) = n
          /\ \A j \in 1..n : req[r].sims[j] = SimAt(r, j)
          /\ (\E j \in 1..n : Gt(SimAt(r, j), Zero)) => req[r].outcome = "recommend"
          /\ req[r].outcome = "recommend" =>
               /\ b \in 1..n
               /\ SimEq(req[r].best_score, SimAt(r, b))
               /\ \A j \in 1..n : ~Gt(SimAt(r, j), SimAt(r, b))
               /\ \A j \in 1..(b - 1) : Gt(SimAt(r, b), SimAt(r, j))

\* the second record has been recommended: it beats the first and ties with
\* a later one
TieResolved ==
  \E r \in Slots :
    /\ req[r].pc = "done"
    /\ req[r].outcome = "recommend"
    /\ req[r].best_match = 2
    /\ \E j \in 3..Len(OTC_DATA) : SimEq(SimAt(r, j), SimAt(r, 2))

\* C5: a recommendation carries a strictly positive similarity and a record
\* whose embedding is not null, and a scan in which no record has a strictly
\* positive similarity ends in "no match".
NullNeverWins ==
  \A r \in Slots :
    req[r].pc = "done" =>
      /\ req[r].outcome = "recommend" =>
           /\ Gt(req[r].best_score, Zero)
           /\ req[r].best_match \in 1..Len(OTC_DATA)
           /\ GetEmbedding(OTC_DATA[req[r].best_match]) # Null
      /\ (/\ req[r].outcome \notin {"escalate", "fault"}
          /\ \A j \in 1..Len(OTC_DATA) : ~Gt(SimAt(r, j), Zero)) =>
           req[r].outcome = "no_match"

\* a scan with a usable query vector has ended in "no match" over a record
\* with a null embedding and a record of negative similarity
NoMatchOverNullAndNegative ==
  \E r \in Slots :
    /\ req[r].pc = "done"
    /\ req[r].outcome = "no_match"
    /\ IsVec(req[r].user_vec)
    /\ Truthy(req[r].user_vec)
    /\ \E i, j \in 1..Len(OTC_DATA) :
         /\ GetEmbedding(OTC_DATA[i]) = Null
         /\ Gt(Zero, SimAt(r, j))

\* C6: the probe issues at most RETRIES attempts; an attempt that succeeds
\* ends it at once with true; it returns false only after RETRIES failed
\* attempts, and then it does; it is never entered again once it has
\* returned; and it returns.
ProbeBounded ==
  /\ [](attempt \in 0..RETRIES)
  /\ [](phase = "probing" => (last_probe # "ok" /\ ~ollama_ready))
  /\ [][(phase = "probing" /\ last_probe' = "ok") =>
          (phase' = "building" /\ ollama_ready')]_vars
  /\ [][(phase = "probing" /\ phase' # "probing") =>
          /\ ollama_ready' <=> last_probe' = "ok"
          /\ ~ollama_ready' => (attempt = RETRIES /\ last_probe' # "ok")]_vars
  /\ [][(phase = "probing" /\ attempt = RETRIES) =>
          (phase' = "building" /\ ~ollama_ready')]_vars
  /\ [][phase # "probing" =>
          /\ phase' # "probing"
          /\ attempt' = attempt
          /\ last_probe' = last_probe
          /\ ollama_ready' = ollama_ready]_vars
  /\ <>(phase # "probing")

\* the probe has returned false
ProbeExhausted == phase # "probing" /\ ~ollama_ready /\ last_probe \in {"bad_status", "exception"}

\* the weight table of C7
SignalTable ==
  {[pats |-> {chest_pain, breath}, w |-> 4],
   [pats |-> {bleeding}, w |-> 4],
   [pats |-> {fever}, w |-> 2],
   [pats |-> {rash}, w |-> 1]}

RECURSIVE TotalWeight(_)
TotalWeight(S) ==
  IF S = {} THEN 0
  ELSE LET x == CHOOSE y \in S : TRUE IN x.w + TotalWeight(S \ {x})

ClaimedWeight(p) ==
  LET txt == Lower(p.symptoms \o Space \o p.additional_symptoms)
  IN  TotalWeight({g \in SignalTable : \E pat \in g.pats : Contains(txt, pat)})
        + (IF p.age > 60 THEN 3 ELSE 0)
        + (IF Lower(p.sex) = male THEN 1 ELSE 0)

\* the inputs obtained from p by adding one triggering signal: a trigger
\* appended to the text, the age raised above 60, the sex set to male
WithSignal(p) ==
  {[p EXCEPT !.additional_symptoms = @ \o Space \o g] :
     g \in {chest_pain, breath, bleeding, fever, rash}}
    \cup {[p EXCEPT !.age = 61], [p EXCEPT !.sex = male]}

\* C7: the risk score of a request is min(100, 10 * W) for the weight table
\* of the claim, lies in 0..100, and is not lowered by adding a signal.
RiskScoreFormula ==
  \A r \in Slots :
    req[r].pc # "idle" =>
      LET p == req[r].patient
      IN  /\ req[r].risk = Min(100, 10 * ClaimedWeight(p))
          /\ req[r].risk \in 0..100
          /\ \A q \in WithSignal(p) :
               rule_based_risk_score(q.age, q.sex, q.symptoms, q.additional_symptoms)
                 >= req[r].risk

\* a request whose weights sum to more than 10 has been capped at 100, with
\* upper-case text taking part
RiskCapped ==
  \E r \in Slots :
    /\ req[r].pc # "idle"
    /\ 10 * ClaimedWeight(req[r].patient) > 100
    /\ req[r].risk = 100
    /\ req[r].patient.symptoms # Lower(req[r].patient.symptoms)

\* the vector C8 gives for a JSON value: a list of numbers is that list, a
\* list of vectors its first vector, anything else null
ClaimedFlat(x) ==
  IF IsVec(x) /\ Len(x.xs) > 0 THEN x
  ELSE IF x.t = "list" /\ Len(x.xs) > 0 /\ \A i \in 1..Len(x.xs) : IsVec(x.xs[i]) THEN x.xs[1]
  ELSE Null

ClaimedVector(reply) ==
  IF ~reply.ok THEN Null
  ELSE LET data == reply.data
       IN  IF data.t = "dict" /\ data.embedding.t # "absent"
             THEN (IF IsVec(data.embedding) THEN data.embedding ELSE Null)
           ELSE IF data.t = "dict" /\ data.embeddings.t # "absent"
             THEN ClaimedFlat(data.embeddings)
           ELSE ClaimedFlat(data)

\* C8: the embedding call turns each accepted response shape into one flat
\* vector of numbers and every other response into null.
EmbedNormalizes ==
  \A r \in Slots :
    req[r].pc \in {"searching", "done"} /\ req[r].reply # NoReply =>
      /\ req[r].user_vec = ClaimedVector(req[r].reply)
      /\ (req[r].user_vec = Null \/ IsVec(req[r].user_vec))

\* C9: the similarity of two non-null vectors of different lengths is 0.
MismatchedLengthsAreZero ==
  \A r \in Slots :
    (req[r].pc = "done" /\ req[r].outcome \in {"no_match", "recommend"}) =>
      \A j \in 1..Len(OTC_DATA) :
        LET e == GetEmbedding(OTC_DATA[j])
            v == req[r].user_vec
        IN  (IsVec(v) /\ IsVec(e) /\ Len(v.xs) > 0 /\ Len(e.xs) > 0
               /\ Len(v.xs) # Len(e.xs)) =>
              SimEq(req[r].sims[j], Zero)

\* C10: once the startup phase is over no step changes the knowledge base,
\* the readiness flag or the other module-level tables, and a step of one
\* request changes no other request.
ReadOnlyAfterStartup ==
  [][phase = "serving" =>
       /\ phase' = "serving"
       /\ OTC_DATA' = OTC_DATA
       /\ ollama_ready' = ollama_ready
       /\ APPOINTMENTS' = APPOINTMENTS
       /\ otp_storage' = otp_storage
       /\ \A r, q \in Slots : (r # q /\ req'[r] # req[r]) => req'[q] = req[q]]_vars

\* one request has been given a recommendation while another is still scanning
ConcurrentRecommendation ==
  /\ phase = "serving"
  /\ \E r, q \in Slots :
       /\ r # q
       /\ req[r].pc = "done"
       /\ req[r].outcome = "recommend"
       /\ req[q].pc = "searching"

====
